---- MODULE Spec2Model ----
(***************************************************************************)
(* The NL-to-SQL query-safety gate of shabana-amzur/tothu:                 *)
(*   backend/app/services/sql_validator.py   SQLValidator                  *)
(*   backend/app/services/nl2sql_service.py  NL2SQLService                 *)
(*   backend/app/api/nl2sql.py               POST /api/nl-to-sql           *)
(*                                                                         *)
(* Statement texts are TLA+ strings handled character by character, so the *)
(* validator, the sanitizer and the classifier are computed as the Python  *)
(* code computes them (upper, strip, startswith, re.search, count, split). *)
(* An Optional value is a sequence of length 0 (None) or 1 (the value).    *)
(***************************************************************************)
EXTENDS Integers, Sequences, FiniteSets, TLC

VARIABLES
    pc,                 \* position of the running handler / call
    request,            \* NL2SQLRequest of the running request, or None
    sql_result,         \* nl_to_sql: result of its own generate_sql call
    sql,                \* nl_to_sql: local sql (the classified statement)
    is_write,           \* nl_to_sql: local is_write
    query_type,         \* nl_to_sql: local query_type
    p_sql_result,       \* process_nl_query: result of its generate_sql call
    exec_sql,           \* execute_sql: its argument
    sanitized_sql,      \* execute_sql: local sanitized_sql
    connection,         \* execute_sql: the connection of the with-block
    cursor,             \* execute_sql: local result (the engine's answer)
    execution_result,   \* value returned by execute_sql
    response,           \* value returned to the caller (None while running)
    trace,              \* events of the running request or call, in order
    preview,            \* last confirmation preview shown, per question
    unit,               \* direct calls of the pure functions: argument, results
    other               \* locals of a second, suspended invocation of the handler

vars == <<pc, request, sql_result, sql, is_write, query_type, p_sql_result,
          exec_sql, sanitized_sql, connection, cursor, execution_result,
          response, trace, preview, unit, other>>

-----------------------------------------------------------------------------
(* Optional values *)

None == <<>>

Some(x) == <<x>>

-----------------------------------------------------------------------------
(* Python str primitives *)

LowerAlpha == "abcdefghijklmnopqrstuvwxyz"

UpperAlpha == "ABCDEFGHIJKLMNOPQRSTUVWXYZ"

Digits == "0123456789"

CharAt(s, i) == SubSeq(s, i, i)

CharsOf(s) == {CharAt(s, i) : i \in 1..Len(s)}

\* str.upper on one character
UpperMap ==
    [c \in CharsOf(LowerAlpha) |->
        CharAt(UpperAlpha, CHOOSE i \in 1..Len(LowerAlpha) : CharAt(LowerAlpha, i) = c)]

UpperChar(c) == IF c \in DOMAIN UpperMap THEN UpperMap[c] ELSE c

RECURSIVE upper(_)
upper(s) == IF s = "" THEN "" ELSE UpperChar(CharAt(s, 1)) \o upper(Tail(s))

\* str.isspace, the characters strip() and split() remove
Whitespace == {" ", "\n", "\t", "\r"}

\* the characters \w matches
WordChars == CharsOf(LowerAlpha) \cup CharsOf(UpperAlpha) \cup CharsOf(Digits) \cup {"_"}

RECURSIVE lstrip(_)
lstrip(s) ==
    IF s # "" /\ CharAt(s, 1) \in Whitespace THEN lstrip(Tail(s)) ELSE s

RECURSIVE rstrip(_)
rstrip(s) ==
    IF s # "" /\ CharAt(s, Len(s)) \in Whitespace
    THEN rstrip(SubSeq(s, 1, Len(s) - 1))
    ELSE s

strip(s) == rstrip(lstrip(s))

startswith(s, p) == Len(s) >= Len(p) /\ SubSeq(s, 1, Len(p)) = p

endswith(s, p) == Len(s) >= Len(p) /\ SubSeq(s, Len(s) - Len(p) + 1, Len(s)) = p

\* faulty variant: only whether the character occurs is counted
count_occurs(s, c) == IF \E i \in 1..Len(s) : CharAt(s, i) = c THEN 1 ELSE 0

count(s, c) == Cardinality({i \in 1..Len(s) : CharAt(s, i) = c})

\* str.split(): the maximal runs of non-whitespace characters, in order
RECURSIVE split(_)
split(s) ==
    LET t == lstrip(s)
        ends == {i \in 1..Len(t) : CharAt(t, i) \in Whitespace}
        n == IF ends = {} THEN Len(t) + 1
             ELSE CHOOSE i \in ends : \A j \in ends : i <= j
    IN  IF t = "" THEN <<>>
        ELSE <<SubSeq(t, 1, n - 1)>> \o split(SubSeq(t, n, Len(t)))

\* sep.join(words)
RECURSIVE join(_, _)
join(sep, words) ==
    IF words = <<>> THEN ""
    ELSE IF Len(words) = 1 THEN words[1]
    ELSE words[1] \o sep \o join(sep, Tail(words))

-----------------------------------------------------------------------------
(* Python re primitives, as far as the validator's patterns use them *)

\* \b at the position between s[p] and s[p+1]
IsWordAt(s, p) == p >= 1 /\ p <= Len(s) /\ CharAt(s, p) \in WordChars

WordBoundary(s, p) == IsWordAt(s, p) # IsWordAt(s, p + 1)

\* the literal lit occurs in s starting at position i
LitAt(s, i, lit) == i >= 1 /\ i + Len(lit) - 1 <= Len(s) /\ SubSeq(s, i, i + Len(lit) - 1) = lit

\* re.search(r'\b' + word + r'\b', s)
SearchWord(word, s) ==
    \E i \in 1..Len(s) :
        /\ LitAt(s, i, word)
        /\ WordBoundary(s, i - 1)
        /\ WordBoundary(s, i + Len(word) - 1)

\* re.search(re.escape(lit), s)
SearchLit(lit, s) == \E i \in 1..Len(s) : LitAt(s, i, lit)

\* re.search(r'\b' + re.escape(lit), s)
SearchBLit(lit, s) == \E i \in 1..Len(s) : LitAt(s, i, lit) /\ WordBoundary(s, i - 1)

\* s[i..j-1] is a run of whitespace (possibly empty)
SpaceRun(s, i, j) == \A k \in i..(j - 1) : CharAt(s, k) \in Whitespace

-----------------------------------------------------------------------------
(* sql_validator.py *)

WRITE_OPERATIONS == <<"INSERT", "UPDATE", "DELETE">>

\* faulty variant: EXEC left out, as if EXECUTE covered it
DANGEROUS_KEYWORDS_no_exec ==
    <<"DROP", "ALTER", "CREATE", "TRUNCATE", "REPLACE", "MERGE",
      "GRANT", "REVOKE", "EXECUTE", "CALL", "BEGIN",
      "COMMIT", "ROLLBACK", "RENAME", "CASCADE">>

DANGEROUS_KEYWORDS ==
    <<"DROP", "ALTER", "CREATE", "TRUNCATE", "REPLACE", "MERGE",
      "GRANT", "REVOKE", "EXECUTE", "EXEC", "CALL", "BEGIN",
      "COMMIT", "ROLLBACK", "RENAME", "CASCADE">>

Range(f) == {f[i] : i \in DOMAIN f}

\* allowed_starts = ['SELECT'] + WRITE_OPERATIONS
allowed_starts == <<"SELECT">> \o WRITE_OPERATIONS

\* the keywords of DANGEROUS_PATTERNS[0]
STACKED_KEYWORDS == <<"INSERT", "UPDATE", "DELETE", "DROP", "ALTER", "CREATE", "TRUNCATE">>

\* faulty variant: only a block comment that is closed counts
BlockComment_closed(u) == SearchLit("/*", u) /\ SearchLit("*/", u)

\* DANGEROUS_PATTERNS[2], the opening of a block comment
BlockComment(u) == SearchLit("/*", u)

\* DANGEROUS_PATTERNS, each as re.search(pattern, sql, re.IGNORECASE): with
\* IGNORECASE the pattern and the text are compared case-folded, u is upper(sql).
\*   1  ;\s*(?:INSERT|UPDATE|DELETE|DROP|ALTER|CREATE|TRUNCATE)
\*   2  --            3  /\*          4  \bINTO\s+OUTFILE\b
\*   5  \bLOAD_FILE\b 6  \bEXEC\(     7  \bSYS\.        8  \bxp_
PatternMatches(n, u) ==
    CASE n = 1 -> \E i \in 1..Len(u) :
                      /\ CharAt(u, i) = ";"
                      /\ \E j \in (i + 1)..Len(u) :
                            /\ SpaceRun(u, i + 1, j)
                            /\ \E k \in Range(STACKED_KEYWORDS) : LitAt(u, j, k)
      [] n = 2 -> SearchLit("--", u)
      [] n = 3 -> BlockComment(u)
      [] n = 4 -> \E i \in 1..Len(u) :
                      /\ LitAt(u, i, "INTO")
                      /\ WordBoundary(u, i - 1)
                      /\ \E j \in (i + 5)..Len(u) :
                            /\ SpaceRun(u, i + 4, j)
                            /\ LitAt(u, j, "OUTFILE")
                            /\ WordBoundary(u, j + 6)
      [] n = 5 -> SearchWord("LOAD_FILE", u)
      [] n = 6 -> SearchBLit("EXEC(", u)
      [] n = 7 -> SearchBLit("SYS.", u)
      [] n = 8 -> SearchBLit("XP_", u)

NumPatterns == 8

\* the index of the first blocklisted keyword (in list order) found in s, 0 if none
FirstKeyword(s) ==
    LET hits == {i \in DOMAIN DANGEROUS_KEYWORDS : SearchWord(DANGEROUS_KEYWORDS[i], s)}
    IN  IF hits = {} THEN 0 ELSE CHOOSE i \in hits : \A j \in hits : i <= j

\* faulty variant: the pattern loop runs before the keyword loop
is_safe_query_patterns_first(s) ==
    LET sql_upper == strip(upper(s))
        kw == FirstKeyword(sql_upper)
        semicolon_count == count(s, ";")
    IN  IF s = "" \/ strip(s) = ""
        THEN <<FALSE, "Empty query provided">>
        ELSE IF ~ \E op \in Range(allowed_starts) : startswith(sql_upper, op)
        THEN <<FALSE, "Query must start with one of: " \o join(", ", allowed_starts)>>
        ELSE IF \E n \in 1..NumPatterns : PatternMatches(n, upper(s))
        THEN <<FALSE, "Query contains forbidden pattern or syntax">>
        ELSE IF kw # 0
        THEN <<FALSE, "Query contains forbidden keyword: " \o DANGEROUS_KEYWORDS[kw]>>
        ELSE IF semicolon_count > 1
        THEN <<FALSE, "Multiple SQL statements are not allowed">>
        ELSE IF semicolon_count = 1 /\ ~ endswith(strip(s), ";")
        THEN <<FALSE, "Semicolon found in middle of query">>
        ELSE <<TRUE, "">>

\* SQLValidator.is_safe_query: <<is_safe, error_message>>
is_safe_query(s) ==
    LET sql_upper == strip(upper(s))
        kw == FirstKeyword(sql_upper)
        semicolon_count == count(s, ";")
    IN  IF s = "" \/ strip(s) = ""
        THEN <<FALSE, "Empty query provided">>
        ELSE IF ~ \E op \in Range(allowed_starts) : startswith(sql_upper, op)
        THEN <<FALSE, "Query must start with one of: " \o join(", ", allowed_starts)>>
        ELSE IF kw # 0
        THEN <<FALSE, "Query contains forbidden keyword: " \o DANGEROUS_KEYWORDS[kw]>>
        ELSE IF \E n \in 1..NumPatterns : PatternMatches(n, upper(s))
        THEN <<FALSE, "Query contains forbidden pattern or syntax">>
        ELSE IF semicolon_count > 1
        THEN <<FALSE, "Multiple SQL statements are not allowed">>
        ELSE IF semicolon_count = 1 /\ ~ endswith(strip(s), ";")
        THEN <<FALSE, "Semicolon found in middle of query">>
        ELSE <<TRUE, "">>

\* faulty variant: the text is not stripped again after the semicolon is dropped and
\* whitespace is not collapsed
sanitize_query_keep_ws(s) ==
    LET t == strip(s)
    IN  IF endswith(t, ";") THEN SubSeq(t, 1, Len(t) - 1) ELSE t

\* faulty variant: the trailing semicolon is left in place
sanitize_query_keep_semicolon(s) == join(" ", split(strip(s)))

\* SQLValidator.sanitize_query
sanitize_query(s) ==
    LET t == strip(s)
        u == IF endswith(t, ";") THEN strip(SubSeq(t, 1, Len(t) - 1)) ELSE t
    IN  join(" ", split(u))

\* faulty variant: the text is not stripped before the prefix test
get_query_type_no_strip(s) ==
    LET sql_upper == upper(s)
    IN  IF startswith(sql_upper, "SELECT") THEN "SELECT"
        ELSE IF startswith(sql_upper, "INSERT") THEN "INSERT"
        ELSE IF startswith(sql_upper, "UPDATE") THEN "UPDATE"
        ELSE IF startswith(sql_upper, "DELETE") THEN "DELETE"
        ELSE "UNKNOWN"

\* faulty variant: the UPDATE branch is missing
get_query_type_no_update(s) ==
    LET sql_upper == strip(upper(s))
    IN  IF startswith(sql_upper, "SELECT") THEN "SELECT"
        ELSE IF startswith(sql_upper, "INSERT") THEN "INSERT"
        ELSE IF startswith(sql_upper, "DELETE") THEN "DELETE"
        ELSE "UNKNOWN"

\* SQLValidator.get_query_type
get_query_type(s) ==
    LET sql_upper == strip(upper(s))
    IN  IF startswith(sql_upper, "SELECT") THEN "SELECT"
        ELSE IF startswith(sql_upper, "INSERT") THEN "INSERT"
        ELSE IF startswith(sql_upper, "UPDATE") THEN "UPDATE"
        ELSE IF startswith(sql_upper, "DELETE") THEN "DELETE"
        ELSE "UNKNOWN"

\* faulty variant: DELETE is not counted as a write
is_write_operation_no_delete(s) == get_query_type(s) \in {"INSERT", "UPDATE"}

\* SQLValidator.is_write_operation
is_write_operation(s) == get_query_type(s) \in Range(WRITE_OPERATIONS)

\* faulty variant: the sanitized text is returned with a rejection too
validate_and_sanitize_keeps_text(s) ==
    LET v == is_safe_query(s)
    IN  IF ~ v[1] THEN <<FALSE, sanitize_query(s), v[2]>>
        ELSE <<TRUE, sanitize_query(s), "">>

\* SQLValidator.validate_and_sanitize: <<is_safe, sanitized_sql, error_message>>
validate_and_sanitize(s) ==
    LET v == is_safe_query(s)
    IN  IF ~ v[1] THEN <<FALSE, "", v[2]>>
        ELSE <<TRUE, sanitize_query(s), "">>

\* the dict the /validate endpoint returns
validate_sql(s) ==
    LET v == validate_and_sanitize(s)
    IN  [is_safe |-> v[1],
         sanitized_sql |-> IF v[1] THEN Some(v[2]) ELSE None,
         error |-> IF ~ v[1] THEN Some(v[3]) ELSE None]

-----------------------------------------------------------------------------
(* Inputs *)

\* a statement text is a concatenation of at most MaxChunks of these pieces
Chunks == {"SELECT", "delete", " ", "\n", ";", "DROP", "x", "-"}

MaxChunks == 3

RECURSIVE TextsOf(_)
TextsOf(n) ==
    IF n = 0 THEN {""}
    ELSE LET shorter == TextsOf(n - 1)
         IN  shorter \cup {t \o c : t \in shorter, c \in Chunks}

\* the keywords the specification lists as blocklisted
Blocklist ==
    {"DROP", "ALTER", "CREATE", "TRUNCATE", "REPLACE", "MERGE", "GRANT", "REVOKE",
     "EXECUTE", "EXEC", "CALL", "BEGIN", "COMMIT", "ROLLBACK", "RENAME", "CASCADE"}

\* every blocklisted keyword, in upper and in another letter case, inside a statement
Lowered(k) ==
    CASE k = "DROP" -> "drop" [] k = "ALTER" -> "alter" [] k = "CREATE" -> "create"
      [] k = "TRUNCATE" -> "truncate" [] k = "REPLACE" -> "replace"
      [] k = "MERGE" -> "merge" [] k = "GRANT" -> "grant" [] k = "REVOKE" -> "revoke"
      [] k = "EXECUTE" -> "execute" [] k = "EXEC" -> "exec" [] k = "CALL" -> "call"
      [] k = "BEGIN" -> "begin" [] k = "COMMIT" -> "Commit" [] k = "ROLLBACK" -> "rollBack"
      [] k = "RENAME" -> "rename" [] k = "CASCADE" -> "cascade"

KeywordTexts ==
    {pre \o k \o post :
        pre \in {"", "SELECT ", "update t set a=(", "INSERT x", "DELETE FROM t;"},
        k \in Blocklist \cup {Lowered(d) : d \in Blocklist},
        post \in {"", " t", ")", "_x", ";"}}

\* the scenarios of the specification and the other dangerous patterns
ScenarioTexts ==
    {"SELECT * FROM users",
     "DELETE FROM orders WHERE id=1; DROP TABLE orders",
     "UPDATE products SET price=9.99 WHERE id=5",
     "SELECT * FROM users -- drop everything",
     "SELECT 1 /* x */",
     "SELECT a /* x",
     "delete from t where a=1 --",
     "select a into  outfile 'f'",
     "SELECT load_file('f')",
     "SELECT sys.fn()",
     "SELECT xp_cmd",
     "SELECT 1; delete from t",
     " insert  into t\nvalues (1) ;\n",
     "SHOW TABLES"}

Texts == TextsOf(MaxChunks) \cup KeywordTexts \cup ScenarioTexts

\* TLA+ strings cannot hold the character U+0060 (the Markdown fence character);
\* it is written ~ in the generator's responses
FENCE == "~~~"

FENCE_SQL == "~~~sql"

\* what the generator's llm.invoke may answer
LLMResponses ==
    {"SELECT * FROM users",
     "UPDATE products SET price=9.99 WHERE id=5",
     "DELETE FROM orders WHERE id=1; DROP TABLE orders",
     "~~~sql\ndelete  from orders ;\n~~~",
     "ERROR: Cannot generate query from this question",
     "SHOW TABLES",
     ""}

\* llm.invoke returns a text or raises
LLMOutcomes ==
    {[raised |-> FALSE, content |-> r] : r \in LLMResponses}
        \cup {[raised |-> TRUE, content |-> "quota exceeded"]}

Questions == {"q1", "q2"}

\* the largest row count and result length the engine answers with
MaxRows == 2

RECURSIVE SeqsUpTo(_, _)
SeqsUpTo(S, n) ==
    IF n = 0 THEN {<<>>}
    ELSE LET shorter == SeqsUpTo(S, n - 1)
         IN  shorter \cup {Append(q, x) : q \in shorter, x \in S}

\* what connection.execute may answer for a statement it accepts
EngineAnswers ==
    {[rowcount |-> n, columns |-> <<>>, rows |-> <<>>] : n \in 0..MaxRows}
        \cup {[rowcount |-> -1, columns |-> <<"id">>, rows |-> r] :
                r \in SeqsUpTo({<<"1">>}, MaxRows)}
        \cup {[rowcount |-> -1, columns |-> <<"id", "name">>, rows |-> r] :
                r \in SeqsUpTo({<<"1", "a">>, <<"2", "b">>}, MaxRows)}
        \* a join that selects two columns of the same name
        \cup {[rowcount |-> -1, columns |-> <<"id", "id">>, rows |-> r] :
                r \in SeqsUpTo({<<"1", "2">>}, MaxRows)}

\* str(e) of the exceptions the datastore driver raises (SQLAlchemyError)
DbErrors == {"connection refused"}

\* str(e) of any other exception
OtherErrors == {"unexpected"}

-----------------------------------------------------------------------------
(* nl2sql_service.py: generate_sql *)

Event(ev, arg) == [ev |-> ev, arg |-> arg]

\* the text generate_sql extracts from response.content (lines 134-144)
ExtractSql(content) ==
    LET a == strip(content)
        b == IF startswith(a, FENCE_SQL) THEN SubSeq(a, 7, Len(a))
             ELSE IF startswith(a, FENCE) THEN SubSeq(a, 4, Len(a))
             ELSE a
        c == IF endswith(b, FENCE) THEN SubSeq(b, 1, Len(b) - 3) ELSE b
    IN  strip(c)

\* faulty variant: the verdict of validate_and_sanitize is not looked at
generate_sql_unchecked(outcome) ==
    IF outcome.raised
    THEN [success |-> FALSE,
          error |-> Some("Failed to generate SQL: " \o outcome.content),
          sql |-> None]
    ELSE LET text == ExtractSql(outcome.content)
             v == validate_and_sanitize(text)
         IN  IF startswith(text, "ERROR:")
             THEN [success |-> FALSE, error |-> Some(text), sql |-> None]
             ELSE [success |-> TRUE, error |-> None, sql |-> Some(v[2])]

\* faulty variant: the extracted text is returned, not the sanitized one
generate_sql_raw(outcome) ==
    IF outcome.raised
    THEN [success |-> FALSE,
          error |-> Some("Failed to generate SQL: " \o outcome.content),
          sql |-> None]
    ELSE LET text == ExtractSql(outcome.content)
             v == validate_and_sanitize(text)
         IN  IF startswith(text, "ERROR:")
             THEN [success |-> FALSE, error |-> Some(text), sql |-> None]
             ELSE IF ~ v[1]
             THEN [success |-> FALSE,
                   error |-> Some("Generated query failed safety validation: " \o v[3]),
                   sql |-> Some(text)]
             ELSE [success |-> TRUE, error |-> None, sql |-> Some(text)]

\* NL2SQLService.generate_sql, given what llm.invoke does: the returned dict
generate_sql(outcome) ==
    IF outcome.raised
    THEN [success |-> FALSE,
          error |-> Some("Failed to generate SQL: " \o outcome.content),
          sql |-> None]
    ELSE LET text == ExtractSql(outcome.content)
             v == validate_and_sanitize(text)
         IN  IF startswith(text, "ERROR:")
             THEN [success |-> FALSE, error |-> Some(text), sql |-> None]
             ELSE IF ~ v[1]
             THEN [success |-> FALSE,
                   error |-> Some("Generated query failed safety validation: " \o v[3]),
                   sql |-> Some(text)]
             ELSE [success |-> TRUE, error |-> None, sql |-> Some(v[2])]

\* what one call of generate_sql does, in order: get_database_schema reads the
\* catalog over a datastore connection of its own, llm.invoke is called, and
\* the answer (unless it raised or declined) is validated
GenerateEvents(outcome) ==
    <<Event("introspect", ""), Event("llm", outcome.content)>>
        \o (IF outcome.raised \/ startswith(ExtractSql(outcome.content), "ERROR:")
            THEN <<>>
            ELSE <<Event("gen_validate", ExtractSql(outcome.content))>>)

-----------------------------------------------------------------------------
(* nl2sql_service.py: execute_sql, one action per step *)

NoResult ==
    [success |-> FALSE, data |-> None, row_count |-> None, columns |-> None,
     rows_affected |-> None, query_type |-> None, message |-> None, error |-> None]

\* faulty variant: the failure dict says success
FailureResult_success(msg) == [NoResult EXCEPT !.success = TRUE, !.error = Some(msg)]

\* the dict of lines 197-201, 247-251 and 255-259
FailureResult(msg) == [NoResult EXCEPT !.error = Some(msg), !.data = None]

\* dict(zip(columns, row)): a later column of the same name overwrites
RowMap(columns, row) ==
    [c \in Range(columns) |->
        row[CHOOSE i \in DOMAIN columns :
                columns[i] = c /\ \A j \in DOMAIN columns : columns[j] = c => j <= i]]

\* leaving the with-block closes the connection (rolling back what is uncommitted)
Release(t) == Append(t, Event("release", ""))

\* faulty variant: the statement is sanitized and run without looking at is_safe
ExecValidate_unchecked ==
    /\ pc = "exec_entry"
    /\ trace' = Append(trace, Event("validate", exec_sql))
    /\ sanitized_sql' = sanitize_query(exec_sql)
    /\ pc' = "exec_connect"
    /\ UNCHANGED <<request, sql_result, sql, is_write, query_type, p_sql_result,
                   exec_sql, connection, cursor, execution_result, response, preview,
                   unit, other>>

\* lines 193-201
ExecValidate ==
    /\ pc = "exec_entry"
    /\ LET v == validate_and_sanitize(exec_sql)
       IN  /\ trace' = Append(trace, Event("validate", exec_sql))
           /\ IF ~ v[1]
              THEN /\ execution_result' =
                        FailureResult("Query failed safety validation: " \o v[3])
                   /\ pc' = "exec_ret"
                   /\ UNCHANGED sanitized_sql
              ELSE /\ sanitized_sql' = v[2]
                   /\ pc' = "exec_connect"
                   /\ UNCHANGED execution_result
    /\ UNCHANGED <<request, sql_result, sql, is_write, query_type, p_sql_result,
                   exec_sql, connection, cursor, response, preview, unit, other>>

\* line 205: self.engine.connect()
ExecConnect ==
    /\ pc = "exec_connect"
    /\ \/ /\ connection' = "open"
          /\ trace' = Append(trace, Event("connect", ""))
          /\ pc' = "exec_run"
          /\ UNCHANGED execution_result
       \/ \E e \in DbErrors :
            /\ execution_result' = FailureResult("Database error: " \o e)
            /\ trace' = Append(trace, Event("connect_failed", ""))
            /\ pc' = "exec_ret"
            /\ UNCHANGED connection
    /\ UNCHANGED <<request, sql_result, sql, is_write, query_type, p_sql_result,
                   exec_sql, sanitized_sql, cursor, response, preview, unit, other>>

\* faulty variant: a failed statement leaves the connection open
ExecRun_leak ==
    /\ pc = "exec_run"
    /\ \/ \E a \in EngineAnswers :
            /\ cursor' = a
            /\ trace' = Append(trace, Event("execute", sanitized_sql))
            /\ pc' = IF get_query_type(sanitized_sql) \in {"INSERT", "UPDATE", "DELETE"}
                     THEN "exec_commit" ELSE "exec_fetch"
            /\ UNCHANGED <<connection, execution_result>>
       \/ \E e \in DbErrors :
            /\ execution_result' = FailureResult("Database error: " \o e)
            /\ trace' = Append(trace, Event("execute_failed", sanitized_sql))
            /\ connection' = "open"
            /\ pc' = "exec_ret"
            /\ UNCHANGED cursor
    /\ UNCHANGED <<request, sql_result, sql, is_write, query_type, p_sql_result,
                   exec_sql, sanitized_sql, response, preview, unit, other>>

\* lines 207-209: connection.execute(text(sanitized_sql))
ExecRun ==
    /\ pc = "exec_run"
    /\ \/ \E a \in EngineAnswers :
            /\ cursor' = a
            /\ trace' = Append(trace, Event("execute", sanitized_sql))
            /\ pc' = IF get_query_type(sanitized_sql) \in {"INSERT", "UPDATE", "DELETE"}
                     THEN "exec_commit" ELSE "exec_fetch"
            /\ UNCHANGED <<connection, execution_result>>
       \/ \E e \in DbErrors :
            /\ execution_result' = FailureResult("Database error: " \o e)
            /\ trace' = Release(Append(trace, Event("execute_failed", sanitized_sql)))
            /\ connection' = "closed"
            /\ pc' = "exec_ret"
            /\ UNCHANGED cursor
    /\ UNCHANGED <<request, sql_result, sql, is_write, query_type, p_sql_result,
                   exec_sql, sanitized_sql, response, preview, unit, other>>

\* faulty variant: the count reported is row_count, not the cursor's rowcount
ExecCommit_row_count ==
    /\ pc = "exec_commit"
    /\ LET qt == get_query_type(sanitized_sql)
       IN  \/ /\ execution_result' =
                    [NoResult EXCEPT
                        !.success = TRUE,
                        !.data = Some(<<>>),
                        !.row_count = Some(0),
                        !.columns = Some(<<>>),
                        !.rows_affected = Some(0),
                        !.query_type = Some(qt),
                        !.message = Some(qt \o " successful: " \o ToString(0)
                                            \o " row(s) affected")]
              /\ trace' = Release(Append(trace, Event("commit", sanitized_sql)))
           \/ \E e \in DbErrors :
                /\ execution_result' = FailureResult("Database error: " \o e)
                /\ trace' = Release(Append(trace, Event("commit_failed", sanitized_sql)))
    /\ connection' = "closed"
    /\ pc' = "exec_ret"
    /\ UNCHANGED <<request, sql_result, sql, is_write, query_type, p_sql_result,
                   exec_sql, sanitized_sql, cursor, response, preview, unit, other>>

\* lines 212-224: the write branch
ExecCommit ==
    /\ pc = "exec_commit"
    /\ LET qt == get_query_type(sanitized_sql)
       IN  \/ /\ execution_result' =
                    [NoResult EXCEPT
                        !.success = TRUE,
                        !.data = Some(<<>>),
                        !.row_count = Some(0),
                        !.columns = Some(<<>>),
                        !.rows_affected = Some(cursor.rowcount),
                        !.query_type = Some(qt),
                        !.message = Some(qt \o " successful: " \o ToString(cursor.rowcount)
                                            \o " row(s) affected")]
              /\ trace' = Release(Append(trace, Event("commit", sanitized_sql)))
           \/ \E e \in DbErrors :
                /\ execution_result' = FailureResult("Database error: " \o e)
                /\ trace' = Release(Append(trace, Event("commit_failed", sanitized_sql)))
    /\ connection' = "closed"
    /\ pc' = "exec_ret"
    /\ UNCHANGED <<request, sql_result, sql, is_write, query_type, p_sql_result,
                   exec_sql, sanitized_sql, cursor, response, preview, unit, other>>

\* faulty variant: row_count is taken from the cursor's rowcount
ExecFetch_rowcount ==
    /\ pc = "exec_fetch"
    /\ \/ /\ execution_result' =
                [NoResult EXCEPT
                    !.success = TRUE,
                    !.data = Some([i \in DOMAIN cursor.rows |->
                                      RowMap(cursor.columns, cursor.rows[i])]),
                    !.row_count = Some(cursor.rowcount),
                    !.columns = Some(cursor.columns),
                    !.rows_affected = Some(0),
                    !.query_type = Some("SELECT")]
          /\ trace' = Release(Append(trace, Event("fetch", sanitized_sql)))
       \/ \E e \in DbErrors :
            /\ execution_result' = FailureResult("Database error: " \o e)
            /\ trace' = Release(Append(trace, Event("fetch_failed", sanitized_sql)))
       \/ \E e \in OtherErrors :
            /\ execution_result' = FailureResult("Execution error: " \o e)
            /\ trace' = Release(Append(trace, Event("fetch_failed", sanitized_sql)))
    /\ connection' = "closed"
    /\ pc' = "exec_ret"
    /\ UNCHANGED <<request, sql_result, sql, is_write, query_type, p_sql_result,
                   exec_sql, sanitized_sql, cursor, response, preview, unit, other>>

\* faulty variant: the read branch commits before it fetches
ExecFetch_commits ==
    /\ pc = "exec_fetch"
    /\ \/ /\ execution_result' =
                [NoResult EXCEPT
                    !.success = TRUE,
                    !.data = Some([i \in DOMAIN cursor.rows |->
                                      RowMap(cursor.columns, cursor.rows[i])]),
                    !.row_count = Some(Len(cursor.rows)),
                    !.columns = Some(cursor.columns),
                    !.rows_affected = Some(0),
                    !.query_type = Some("SELECT")]
          /\ trace' = Release(Append(Append(trace, Event("commit", sanitized_sql)),
                                      Event("fetch", sanitized_sql)))
       \/ \E e \in DbErrors :
            /\ execution_result' = FailureResult("Database error: " \o e)
            /\ trace' = Release(Append(trace, Event("fetch_failed", sanitized_sql)))
       \/ \E e \in OtherErrors :
            /\ execution_result' = FailureResult("Execution error: " \o e)
            /\ trace' = Release(Append(trace, Event("fetch_failed", sanitized_sql)))
    /\ connection' = "closed"
    /\ pc' = "exec_ret"
    /\ UNCHANGED <<request, sql_result, sql, is_write, query_type, p_sql_result,
                   exec_sql, sanitized_sql, cursor, response, preview, unit, other>>

\* lines 226-243: the read branch
ExecFetch ==
    /\ pc = "exec_fetch"
    /\ \/ /\ execution_result' =
                [NoResult EXCEPT
                    !.success = TRUE,
                    !.data = Some([i \in DOMAIN cursor.rows |->
                                      RowMap(cursor.columns, cursor.rows[i])]),
                    !.row_count = Some(Len(cursor.rows)),
                    !.columns = Some(cursor.columns),
                    !.rows_affected = Some(0),
                    !.query_type = Some("SELECT")]
          /\ trace' = Release(Append(trace, Event("fetch", sanitized_sql)))
       \/ \E e \in DbErrors :
            /\ execution_result' = FailureResult("Database error: " \o e)
            /\ trace' = Release(Append(trace, Event("fetch_failed", sanitized_sql)))
       \/ \E e \in OtherErrors :
            /\ execution_result' = FailureResult("Execution error: " \o e)
            /\ trace' = Release(Append(trace, Event("fetch_failed", sanitized_sql)))
    /\ connection' = "closed"
    /\ pc' = "exec_ret"
    /\ UNCHANGED <<request, sql_result, sql, is_write, query_type, p_sql_result,
                   exec_sql, sanitized_sql, cursor, response, preview, unit, other>>

execute_sql == ExecValidate \/ ExecConnect \/ ExecRun \/ ExecCommit \/ ExecFetch

-----------------------------------------------------------------------------
(* api/nl2sql.py: POST /api/nl-to-sql, and process_nl_query *)

NoRequest == [question |-> "", confirm |-> FALSE, active |-> FALSE]

NoGenerated == [success |-> FALSE, error |-> None, sql |-> None]

\* NL2SQLResponse with every Optional field at its default
NL2SQLResponse(success, question) ==
    [success |-> success, question |-> question, sql |-> None, data |-> None,
     row_count |-> None, columns |-> None, error |-> None, rows_affected |-> None,
     query_type |-> None, message |-> None, is_write_operation |-> None]

\* faulty variant: the confirm flag is read the wrong way round
requires_confirmation_inverted(w, confirm) == w /\ confirm

\* line 131: the gate
requires_confirmation(w, confirm) == w /\ ~ confirm

\* lines 114-122
GenerationFailure(q, g) ==
    [NL2SQLResponse(FALSE, q) EXCEPT !.sql = g.sql, !.error = g.error]

\* faulty variant: the preview is built with an empty data list
PreviewResponse_with_data(q, text, qt) ==
    [NL2SQLResponse(TRUE, q) EXCEPT
        !.sql = Some(text),
        !.data = Some(<<>>),
        !.is_write_operation = Some(TRUE),
        !.query_type = Some(qt),
        !.message = Some("This is a " \o qt
                            \o " operation. Please review and confirm execution.")]

\* lines 133-143
PreviewResponse(q, text, qt) ==
    [NL2SQLResponse(TRUE, q) EXCEPT
        !.sql = Some(text),
        !.is_write_operation = Some(TRUE),
        !.query_type = Some(qt),
        !.message = Some("This is a " \o qt
                            \o " operation. Please review and confirm execution.")]

\* process_nl_query lines 275-281, then nl_to_sql lines 147-158
ProcessFailureResponse(q, g, w) ==
    [NL2SQLResponse(FALSE, q) EXCEPT
        !.sql = g.sql, !.error = g.error, !.is_write_operation = Some(w)]

\* faulty variant: the error of the execution result is not copied
ProcessResponse_no_error(q, text, r, w) ==
    [NL2SQLResponse(r.success, q) EXCEPT
        !.sql = Some(text),
        !.data = r.data,
        !.row_count = r.row_count,
        !.columns = r.columns,
        !.is_write_operation = Some(w)]

\* process_nl_query lines 288-296, then nl_to_sql lines 147-158
ProcessResponse(q, text, r, w) ==
    [NL2SQLResponse(r.success, q) EXCEPT
        !.sql = Some(text),
        !.data = r.data,
        !.row_count = r.row_count,
        !.columns = r.columns,
        !.error = r.error,
        !.is_write_operation = Some(w)]

\* a request arrives; requests are served one at a time (the handler is a
\* coroutine that never awaits)
Arrive ==
    /\ pc \in {"idle", "responded"}
    /\ \E q \in Questions, c \in BOOLEAN :
            request' = [question |-> q, confirm |-> c, active |-> TRUE]
    /\ pc' = "nl_generate"
    /\ sql_result' = NoGenerated
    /\ sql' = ""
    /\ is_write' = FALSE
    /\ query_type' = "UNKNOWN"
    /\ p_sql_result' = NoGenerated
    /\ exec_sql' = ""
    /\ sanitized_sql' = ""
    /\ connection' = "closed"
    /\ cursor' = [rowcount |-> 0, columns |-> <<>>, rows |-> <<>>]
    /\ execution_result' = NoResult
    /\ response' = None
    /\ trace' = <<>>
    \* the caller keeps the preview only of the response it has just received
    /\ preview' = IF response # None /\ response[1].success
                     /\ response[1].is_write_operation = Some(TRUE)
                     /\ response[1].data = None /\ response[1].error = None
                  THEN Some([question |-> response[1].question, sql |-> response[1].sql[1]])
                  ELSE None
    /\ UNCHANGED <<unit, other>>

\* lines 111-128
NlGenerate ==
    /\ pc = "nl_generate"
    /\ \E o \in LLMOutcomes :
        LET g == generate_sql(o)
        IN  /\ sql_result' = g
            /\ trace' = trace \o GenerateEvents(o)
            /\ IF ~ g.success
               THEN /\ response' = Some(GenerationFailure(request.question, g))
                    /\ pc' = "responded"
                    /\ UNCHANGED <<sql, is_write, query_type>>
               ELSE /\ sql' = g.sql[1]
                    /\ is_write' = is_write_operation(g.sql[1])
                    /\ query_type' = get_query_type(g.sql[1])
                    /\ pc' = "nl_gate"
                    /\ UNCHANGED response
    /\ UNCHANGED <<request, p_sql_result, exec_sql, sanitized_sql, connection, cursor,
                   execution_result, preview, unit, other>>

\* lines 130-146
NlGate ==
    /\ pc = "nl_gate"
    /\ IF requires_confirmation(is_write, request.confirm)
       THEN /\ response' = Some(PreviewResponse(request.question, sql, query_type))
            /\ pc' = "responded"
       ELSE /\ pc' = "pq_generate"
            /\ UNCHANGED response
    /\ UNCHANGED <<request, sql_result, sql, is_write, query_type, p_sql_result, exec_sql,
                   sanitized_sql, connection, cursor, execution_result, trace, preview,
                   unit, other>>

\* faulty variant: a failed generation is tried again
PqGenerate_retry ==
    /\ pc = "pq_generate"
    /\ \E o \in LLMOutcomes :
        LET g == generate_sql(o)
        IN  /\ p_sql_result' = g
            /\ trace' = trace \o GenerateEvents(o)
            /\ IF ~ g.success
               THEN /\ pc' = "pq_generate"
                    /\ UNCHANGED <<response, exec_sql>>
               ELSE /\ exec_sql' = g.sql[1]
                    /\ pc' = "exec_entry"
                    /\ UNCHANGED response
    /\ UNCHANGED <<request, sql_result, sql, is_write, query_type, sanitized_sql,
                   connection, cursor, execution_result, preview, unit, other>>

\* process_nl_query lines 272-286: it calls generate_sql again on the question
PqGenerate ==
    /\ pc = "pq_generate"
    /\ \E o \in LLMOutcomes :
        LET g == generate_sql(o)
        IN  /\ p_sql_result' = g
            /\ trace' = trace \o GenerateEvents(o)
            /\ IF ~ g.success
               THEN /\ response' = Some(ProcessFailureResponse(request.question, g, is_write))
                    /\ pc' = "responded"
                    /\ UNCHANGED exec_sql
               ELSE /\ exec_sql' = g.sql[1]
                    /\ pc' = "exec_entry"
                    /\ UNCHANGED response
    /\ UNCHANGED <<request, sql_result, sql, is_write, query_type, sanitized_sql,
                   connection, cursor, execution_result, preview, unit, other>>

\* process_nl_query lines 288-296 and nl_to_sql lines 147-158
PqReturn ==
    /\ pc = "exec_ret"
    /\ request.active
    /\ response' = Some(ProcessResponse(request.question, p_sql_result.sql[1],
                                        execution_result, is_write))
    /\ pc' = "responded"
    /\ UNCHANGED <<request, sql_result, sql, is_write, query_type, p_sql_result, exec_sql,
                   sanitized_sql, connection, cursor, execution_result, trace, preview,
                   unit, other>>

nl_to_sql == Arrive \/ NlGenerate \/ NlGate \/ PqGenerate \/ PqReturn

-----------------------------------------------------------------------------
(* direct calls of the validator, the classifier, the gate and execute_sql *)

NoUnit ==
    [text |-> "", verdict |-> None, validation |-> None, reverdict |-> None,
     type |-> None, is_write |-> None, confirmed |-> None, decision |-> None]

\* the /validate endpoint on the text: the tuple validate_and_sanitize gives it
\* and the dict it returns
CallValidate ==
    /\ pc = "call"
    /\ unit.verdict = None
    /\ unit' = [unit EXCEPT !.verdict = Some(validate_and_sanitize(unit.text)),
                            !.validation = Some(validate_sql(unit.text))]
    /\ UNCHANGED <<pc, request, sql_result, sql, is_write, query_type, p_sql_result,
                   exec_sql, sanitized_sql, connection, cursor, execution_result,
                   response, trace, preview, other>>

\* validate_and_sanitize on the sanitized text of an accepted statement
CallRevalidate ==
    /\ pc = "call"
    /\ unit.verdict # None
    /\ unit.verdict[1][1]
    /\ unit.reverdict = None
    /\ unit' = [unit EXCEPT !.reverdict = Some(validate_and_sanitize(unit.verdict[1][2]))]
    /\ UNCHANGED <<pc, request, sql_result, sql, is_write, query_type, p_sql_result,
                   exec_sql, sanitized_sql, connection, cursor, execution_result,
                   response, trace, preview, other>>

\* get_query_type(text) and is_write_operation(text)
CallClassify ==
    /\ pc = "call"
    /\ unit.type = None
    /\ unit' = [unit EXCEPT !.type = Some(get_query_type(unit.text)),
                            !.is_write = Some(is_write_operation(unit.text))]
    /\ UNCHANGED <<pc, request, sql_result, sql, is_write, query_type, p_sql_result,
                   exec_sql, sanitized_sql, connection, cursor, execution_result,
                   response, trace, preview, other>>

\* the gate's condition on a classified text
CallDecide ==
    /\ pc = "call"
    /\ unit.is_write # None
    /\ unit.decision = None
    /\ \E c \in BOOLEAN :
        unit' = [unit EXCEPT !.confirmed = Some(c),
                             !.decision = Some(requires_confirmation(unit.is_write[1], c))]
    /\ UNCHANGED <<pc, request, sql_result, sql, is_write, query_type, p_sql_result,
                   exec_sql, sanitized_sql, connection, cursor, execution_result,
                   response, trace, preview, other>>

\* execute_sql(text)
CallExecute ==
    /\ pc = "call"
    /\ unit = [NoUnit EXCEPT !.text = unit.text]
    /\ exec_sql' = unit.text
    /\ pc' = "exec_entry"
    /\ UNCHANGED <<request, sql_result, sql, is_write, query_type, p_sql_result,
                   sanitized_sql, connection, cursor, execution_result, response, trace,
                   preview, unit, other>>

-----------------------------------------------------------------------------
(* Specifications *)

InitLocals ==
    /\ request = NoRequest
    /\ sql_result = NoGenerated
    /\ sql = ""
    /\ is_write = FALSE
    /\ query_type = "UNKNOWN"
    /\ p_sql_result = NoGenerated
    /\ exec_sql = ""
    /\ sanitized_sql = ""
    /\ connection = "closed"
    /\ cursor = [rowcount |-> 0, columns |-> <<>>, rows |-> <<>>]
    /\ execution_result = NoResult
    /\ response = None
    /\ trace = <<>>
    /\ preview = None

\* the locals of an invocation of the handler that has not started
IdleLocals ==
    [pc |-> "idle", request |-> NoRequest, sql_result |-> NoGenerated, sql |-> "",
     is_write |-> FALSE, query_type |-> "UNKNOWN", p_sql_result |-> NoGenerated,
     exec_sql |-> "", sanitized_sql |-> "", connection |-> "closed",
     cursor |-> [rowcount |-> 0, columns |-> <<>>, rows |-> <<>>],
     execution_result |-> NoResult, response |-> None, trace |-> <<>>]

\* the locals of the running invocation
Locals ==
    [pc |-> pc, request |-> request, sql_result |-> sql_result, sql |-> sql,
     is_write |-> is_write, query_type |-> query_type,
     p_sql_result |-> p_sql_result, exec_sql |-> exec_sql,
     sanitized_sql |-> sanitized_sql, connection |-> connection, cursor |-> cursor,
     execution_result |-> execution_result, response |-> response, trace |-> trace]

\* the service behind the endpoint, serving requests
Init ==
    /\ pc = "idle"
    /\ unit = NoUnit
    /\ other = IdleLocals
    /\ InitLocals

Next == nl_to_sql \/ execute_sql

Spec == Init /\ [][Next]_vars

\* the functions called directly on any text
InitUnit ==
    /\ pc = "call"
    /\ \E t \in Texts : unit = [NoUnit EXCEPT !.text = t]
    /\ other = IdleLocals
    /\ InitLocals

NextUnit ==
    \/ CallValidate
    \/ CallRevalidate
    \/ CallClassify
    \/ CallDecide
    \/ CallExecute
    \/ execute_sql

SpecUnit == InitUnit /\ [][NextUnit]_vars

\* what the generator and the engine answer while two requests are in progress
ParOutcomes ==
    {[raised |-> FALSE, content |-> "SELECT * FROM users"],
     [raised |-> FALSE, content |-> "UPDATE products SET price=9.99 WHERE id=5"],
     [raised |-> FALSE, content |-> "DELETE FROM orders WHERE id=1; DROP TABLE orders"]}

ParAnswers == {[rowcount |-> 1, columns |-> <<"id">>, rows |-> <<<<"1">>>>]}

\* faulty variant: is_write is kept in one place for all invocations
Switch_shared_is_write ==
    /\ other' = [Locals EXCEPT !.is_write = other.is_write]
    /\ pc' = other.pc
    /\ request' = other.request
    /\ sql_result' = other.sql_result
    /\ sql' = other.sql
    /\ query_type' = other.query_type
    /\ p_sql_result' = other.p_sql_result
    /\ exec_sql' = other.exec_sql
    /\ sanitized_sql' = other.sanitized_sql
    /\ connection' = other.connection
    /\ cursor' = other.cursor
    /\ execution_result' = other.execution_result
    /\ response' = other.response
    /\ trace' = other.trace
    /\ UNCHANGED <<is_write, preview, unit>>

\* the running invocation is suspended and the other one runs: every local of
\* nl_to_sql, process_nl_query and execute_sql belongs to its invocation
Switch ==
    /\ other' = Locals
    /\ pc' = other.pc
    /\ request' = other.request
    /\ sql_result' = other.sql_result
    /\ sql' = other.sql
    /\ is_write' = other.is_write
    /\ query_type' = other.query_type
    /\ p_sql_result' = other.p_sql_result
    /\ exec_sql' = other.exec_sql
    /\ sanitized_sql' = other.sanitized_sql
    /\ connection' = other.connection
    /\ cursor' = other.cursor
    /\ execution_result' = other.execution_result
    /\ response' = other.response
    /\ trace' = other.trace
    /\ UNCHANGED <<preview, unit>>

\* each of the two requests arrives once, the first with the first question
ArriveOnce ==
    /\ pc = "idle"
    /\ Arrive
    /\ request'.question = (IF other.pc = "idle" THEN "q1" ELSE "q2")

ParGenerated == {generate_sql(o) : o \in ParOutcomes}

ParNlGenerate == NlGenerate /\ sql_result' \in ParGenerated

ParPqGenerate == PqGenerate /\ p_sql_result' \in ParGenerated

ParExecRun == ExecRun /\ (cursor' = cursor \/ cursor' \in ParAnswers)

\* two requests in progress at once, their steps interleaved in any order
NextPar ==
    \/ ArriveOnce
    \/ ParNlGenerate
    \/ NlGate
    \/ ParPqGenerate
    \/ PqReturn
    \/ ExecValidate
    \/ ExecConnect
    \/ ParExecRun
    \/ ExecCommit
    \/ ExecFetch
    \/ Switch

SpecPar == Init /\ [][NextPar]_vars

-----------------------------------------------------------------------------
(* Claims *)

WriteTypes == {"INSERT", "UPDATE", "DELETE"}

\* the events of execute_sql that touch the datastore
DatastoreEvents ==
    {"connect", "connect_failed", "execute", "execute_failed", "commit",
     "commit_failed", "fetch", "fetch_failed", "release"}

Happened(evs) == \E i \in DOMAIN trace : trace[i].ev \in evs

\* a write statement was sent to the datastore or committed in this request
WriteRan ==
    \E i \in DOMAIN trace :
        /\ trace[i].ev \in {"execute", "commit"}
        /\ get_query_type(trace[i].arg) \in WriteTypes

\* C1: a write statement (INSERT, UPDATE, DELETE) is executed or committed only
\* in a request whose confirm flag is true.
C1_WriteOnlyWhenConfirmed == (request.active /\ WriteRan) => request.confirm

\* C2: the statement text handed to execute_sql is the sanitized text that
\* nl_to_sql classified and the gate inspected in the same request.
C2_ExecutedIsClassified ==
    (request.active /\ Happened({"validate"})) => exec_sql = sql

\* C3: when the previous response was the preview of a write for the same
\* question and this request confirms, the statement committed is the previewed one.
C3_ConfirmedIsPreviewed ==
    (request.active /\ request.confirm /\ preview # None
        /\ preview[1].question = request.question)
    => \A i \in DOMAIN trace : trace[i].ev = "commit" => trace[i].arg = preview[1].sql


\* the request is one the gate holds back: its generated statement is a write
\* and the caller did not confirm
Gated ==
    /\ request.active
    /\ sql_result.success
    /\ get_query_type(sql_result.sql[1]) \in WriteTypes
    /\ ~ request.confirm

\* C4 (as claimed): when the gate requires confirmation, the preview is returned
\* and from arrival to response no datastore connection is opened, no statement
\* is executed and nothing is committed.
C4_GatedOpensNoConnection ==
    Gated =>
        /\ ~ Happened(DatastoreEvents \cup {"introspect"})
        /\ pc = "responded" =>
                response = Some(PreviewResponse(request.question, sql_result.sql[1],
                                                get_query_type(sql_result.sql[1])))

\* C4 (amended): when the gate requires confirmation, the preview is returned and
\* execute_sql is never entered: it opens no connection, no statement is executed
\* and nothing is committed; the only datastore access of the request is the
\* catalog read of the one generate_sql call made before the gate.
C4_GatedNeverExecutes ==
    Gated =>
        /\ ~ Happened(DatastoreEvents \cup {"validate"})
        /\ connection = "closed"
        /\ Cardinality({i \in DOMAIN trace : trace[i].ev = "introspect"}) <= 1
        /\ pc \in {"nl_gate", "responded"}
        /\ pc = "responded" =>
                response = Some(PreviewResponse(request.question, sql_result.sql[1],
                                                get_query_type(sql_result.sql[1])))

C4_Witness ==
    /\ Gated
    /\ pc = "responded"
    /\ request.confirm = FALSE
    /\ response[1].query_type = Some("UPDATE")
    /\ response[1].sql = Some("UPDATE products SET price=9.99 WHERE id=5")

\* C5: the gate requires confirmation exactly when the classification is a
\* write (INSERT, UPDATE, DELETE) and the caller has not confirmed, for every
\* classification, UNKNOWN included, and both values of confirmed.
C5_GateDecision ==
    unit.decision # None =>
        /\ unit.type # None /\ unit.confirmed # None
        /\ unit.type[1] \in {"SELECT", "INSERT", "UPDATE", "DELETE", "UNKNOWN"}
        /\ unit.decision[1] = (unit.type[1] \in WriteTypes /\ ~ unit.confirmed[1])
        /\ (unit.type[1] \in WriteTypes /\ unit.confirmed[1] = FALSE) => unit.decision[1]
        /\ (unit.type[1] \in WriteTypes /\ unit.confirmed[1] = TRUE) => ~ unit.decision[1]
        /\ unit.type[1] \in {"SELECT", "UNKNOWN"} => ~ unit.decision[1]

C5_Witness ==
    /\ unit.decision = Some(TRUE)
    /\ unit.type = Some("DELETE")
    /\ unit.confirmed = Some(FALSE)

\* C6: execute_sql validates its argument before anything else; when that
\* validation fails it returns success=false with the validator's reason and
\* opens no connection, executes nothing and commits nothing.
C6_ExecuteRevalidates ==
    /\ (pc \in {"exec_connect", "exec_run", "exec_commit", "exec_fetch", "exec_ret"}
            /\ ~ request.active)
        => (trace # <<>> /\ trace[1] = Event("validate", exec_sql))
    /\ Happened(DatastoreEvents) => is_safe_query(exec_sql)[1]
    /\ (pc = "exec_ret" /\ ~ is_safe_query(exec_sql)[1]) =>
            /\ execution_result.success = FALSE
            /\ execution_result.error =
                  Some("Query failed safety validation: " \o is_safe_query(exec_sql)[2])
            /\ execution_result.data = None
            /\ trace = <<Event("validate", exec_sql)>>
            /\ connection = "closed"

C6_Witness ==
    /\ pc = "exec_ret"
    /\ exec_sql = "DELETE FROM orders WHERE id=1; DROP TABLE orders"
    /\ execution_result.error =
          Some("Query failed safety validation: Query contains forbidden keyword: DROP")

\* C7: a text classified UNKNOWN is never accepted by the validator; every
\* accepted text is classified SELECT, INSERT, UPDATE or DELETE.
C7_UnknownIsUnsafe ==
    (unit.verdict # None /\ unit.type # None) =>
        /\ unit.type[1] = "UNKNOWN" => ~ unit.verdict[1][1]
        /\ unit.verdict[1][1] => unit.type[1] \in {"SELECT", "INSERT", "UPDATE", "DELETE"}

C7_Witness ==
    /\ unit.verdict # None
    /\ unit.type = Some("UNKNOWN")
    /\ unit.text = "SHOW TABLES"
    /\ ~ unit.verdict[1][1]

\* the text holds the keyword k as a whole word, in any letter case
HasWholeWord(t, k) ==
    \E i \in 1..Len(t) :
        LET j == i + Len(k) - 1
        IN  /\ j <= Len(t)
            /\ upper(SubSeq(t, i, j)) = k
            /\ (i = 1 \/ CharAt(t, i - 1) \notin WordChars)
            /\ (j = Len(t) \/ CharAt(t, j + 1) \notin WordChars)

\* C8: a text that holds a blocklisted keyword as a whole word, in any letter
\* case, is rejected by the validator, whatever surrounds the keyword.
C8_BlocklistedIsUnsafe ==
    (unit.verdict # None /\ \E k \in Blocklist : HasWholeWord(unit.text, k))
        => (~ unit.verdict[1][1] /\ unit.verdict[1][2] = "" /\ unit.verdict[1][3] # "")

C8_Witness ==
    /\ unit.verdict # None
    /\ unit.text = "update t set a=(exec)"
    /\ unit.verdict[1] = <<FALSE, "", "Query contains forbidden keyword: EXEC">>

\* C9: validating the sanitized text of an accepted statement gives the same
\* verdict again: it is accepted and sanitizes to itself.
C9_ValidateIdempotent ==
    unit.reverdict # None =>
        /\ unit.verdict[1][1]
        /\ unit.reverdict[1] = unit.verdict[1]

C9_Witness ==
    /\ unit.reverdict # None
    /\ unit.text = " insert  into t\nvalues (1) ;\n"
    /\ unit.verdict[1][2] = "insert into t values (1)"

\* a rejection reason of the blocklist, pattern and semicolon checks
StackedReasons ==
    {"Query contains forbidden keyword: " \o k : k \in Blocklist}
        \cup {"Query contains forbidden pattern or syntax",
              "Multiple SQL statements are not allowed",
              "Semicolon found in middle of query"}

\* the text is a statement of an allowed type followed by ';' and more text
IsStacked(t) ==
    /\ get_query_type(t) # "UNKNOWN"
    /\ \E i \in 1..Len(t) :
            CharAt(t, i) = ";" /\ strip(SubSeq(t, i + 1, Len(t))) # ""

\* the texts of this request that a generate_sql call validated and found unsafe
RejectedGenerated ==
    {trace[i].arg : i \in {j \in DOMAIN trace :
        trace[j].ev = "gen_validate" /\ ~ is_safe_query(trace[j].arg)[1]}}

\* C10: when a generated statement fails validation, the request ends with a
\* failure response carrying the validator's reason (for stacked statements a
\* blocklist or multiple-statement reason), and execute_sql is never entered,
\* whatever the confirm flag.
C10_UnsafeGeneratedNeverRuns ==
    (request.active /\ RejectedGenerated # {}) =>
        /\ pc = "responded"
        /\ ~ Happened(DatastoreEvents \cup {"validate"})
        /\ response # None
        /\ response[1].success = FALSE
        /\ response[1].data = None
        /\ \E t \in RejectedGenerated :
            /\ response[1].sql = Some(t)
            /\ response[1].error =
                  Some("Generated query failed safety validation: " \o is_safe_query(t)[2])
            /\ IsStacked(t) => is_safe_query(t)[2] \in StackedReasons

C10_Witness ==
    /\ request.active /\ request.confirm
    /\ pc = "responded"
    /\ RejectedGenerated = {"DELETE FROM orders WHERE id=1; DROP TABLE orders"}
    /\ response[1].error =
          Some("Generated query failed safety validation: Query contains forbidden keyword: DROP")

\* C11: when a write statement is submitted with confirm=true, it is validated
\* again, executed and committed, and the response returned to the caller
\* reports rows_affected, the query type and a success message.
C11_ConfirmedWriteReported ==
    (pc = "responded" /\ request.confirm /\ Happened({"commit"})) =>
        /\ Happened({"validate"})
        /\ response[1].success
        /\ response[1].rows_affected = Some(cursor.rowcount)
        /\ response[1].query_type = Some(get_query_type(sanitized_sql))
        /\ response[1].message # None

\* the test a caller applies to recognise a request for confirmation
AsksConfirmation(r) ==
    /\ r.success
    /\ r.is_write_operation = Some(TRUE)
    /\ r.error = None
    /\ r.data = None
    /\ r.rows_affected = None

\* C12: a response that asks for confirmation is not a failure: success=true,
\* is_write_operation=true, the query type, the previewed statement and no error;
\* it carries neither result data nor rows_affected, every response of an
\* execution that succeeded carries result data or rows_affected, and every
\* error response has success=false, so the three are told apart.
C12_PreviewDistinguishable ==
    pc = "responded" =>
        /\ Gated =>
              /\ AsksConfirmation(response[1])
              /\ response[1].sql = sql_result.sql
              /\ response[1].query_type = Some(get_query_type(sql_result.sql[1]))
              /\ response[1].query_type[1] \in WriteTypes
        /\ ~ Gated => ~ AsksConfirmation(response[1])
        /\ (~ Gated /\ response[1].success) =>
              /\ Happened({"commit", "fetch"})
              /\ response[1].data # None \/ response[1].rows_affected # None
        /\ ~ response[1].success =>
              /\ response[1].error # None
              /\ response[1].error[1] # ""

C12_Witness ==
    /\ pc = "responded"
    /\ Gated
    /\ AsksConfirmation(response[1])
    /\ response[1].sql = Some("delete from orders")
    /\ response[1].query_type = Some("DELETE")

FailureEvents == {"connect_failed", "execute_failed", "commit_failed", "fetch_failed"}

\* the error texts execute_sql gives for a failure of the datastore
DescriptiveErrors ==
    {Some("Database error: " \o e) : e \in DbErrors}
        \cup {Some("Execution error: " \o e) : e \in OtherErrors}

ResponseFields ==
    {"success", "question", "sql", "data", "row_count", "columns", "error",
     "rows_affected", "query_type", "message", "is_write_operation"}

\* C14: each of the four error kinds (generation, validation, confirmation
\* required, execution) ends in a response object returned to the caller: a
\* generation or validation failure of either generate_sql call and a failure
\* of execute_sql give a response with success=false and that error, a required
\* confirmation gives the preview; no answered request is left without a
\* response object.
C14_ErrorsAreResponses ==
    pc = "responded" =>
        /\ response # None
        /\ DOMAIN response[1] = ResponseFields
        /\ response[1].question = request.question
        /\ ~ sql_result.success =>
              /\ ~ response[1].success
              /\ response[1].error = sql_result.error
              /\ sql_result.error # None
        /\ Gated => AsksConfirmation(response[1])
        /\ (sql_result.success /\ ~ Gated /\ ~ p_sql_result.success) =>
              /\ ~ response[1].success
              /\ response[1].error = p_sql_result.error
              /\ p_sql_result.error # None
        /\ (sql_result.success /\ ~ Gated /\ p_sql_result.success
                /\ ~ execution_result.success) =>
              /\ ~ response[1].success
              /\ response[1].error = execution_result.error
              /\ execution_result.error # None

C14_Witness ==
    /\ pc = "responded"
    /\ Happened({"execute_failed"})
    /\ response[1].success = FALSE
    /\ response[1].error = Some("Database error: connection refused")

\* the shape of a verdict tuple <<is_safe, sanitized_sql, error_message>>
VerdictShape(v) ==
    /\ v[1] <=> (v[2] # "" /\ v[3] = "")
    /\ (~ v[1]) <=> (v[2] = "" /\ v[3] # "")

\* C15: in every verdict of the validator, is_safe is true exactly when a
\* non-empty sanitized text is present and the reason is absent, and false exactly
\* when the sanitized text is absent and a non-empty reason is present; this
\* holds for the tuple of validate_and_sanitize (absent is "") and for the
\* response of the /validate endpoint built from it (absent is None).
C15_VerdictShape ==
    /\ unit.verdict # None =>
          /\ VerdictShape(unit.verdict[1])
          /\ unit.validation # None
          /\ LET r == unit.validation[1]
             IN  /\ r.is_safe = unit.verdict[1][1]
                 /\ r.is_safe <=>
                        (r.sanitized_sql # None /\ r.sanitized_sql[1] # ""
                            /\ r.error = None)
                 /\ (~ r.is_safe) <=>
                        (r.sanitized_sql = None /\ r.error # None /\ r.error[1] # "")
    /\ unit.reverdict # None => VerdictShape(unit.reverdict[1])

C15_Witness ==
    /\ unit.text = " insert  into t\nvalues (1) ;\n"
    /\ unit.verdict = Some(<<TRUE, "insert into t values (1)", "">>)
    /\ unit.validation =
          Some([is_safe |-> TRUE, sanitized_sql |-> Some("insert into t values (1)"),
                error |-> None])

\* the text holds the opening of a line comment or of a block comment
HasComment(t) ==
    \E i \in 1..(Len(t) - 1) : SubSeq(t, i, i + 1) \in {"--", "/*"}

\* C16: every statement text that contains -- or /* anywhere is rejected by the
\* validator, whatever else it holds.
C16_CommentsRejected ==
    (unit.verdict # None /\ HasComment(unit.text)) =>
        /\ unit.verdict[1][1] = FALSE
        /\ unit.verdict[1][3] # ""
        /\ unit.validation[1].is_safe = FALSE

C16_Witness ==
    /\ unit.text = "SELECT a /* x"
    /\ HasComment(unit.text)
    /\ unit.verdict = Some(<<FALSE, "", "Query contains forbidden pattern or syntax">>)

Count(evs) == Cardinality({i \in DOMAIN trace : trace[i].ev \in evs})

\* C17: when execute_sql runs a statement classified INSERT, UPDATE or DELETE
\* and the datastore accepts it, execute_sql commits exactly once and returns
\* success=true, rows_affected equal to the engine's affected-row count,
\* query_type equal to the classification and the message
\* '<TYPE> successful: <n> row(s) affected'.
C17_WriteResult ==
    /\ Count({"commit"}) <= 1
    /\ (pc = "exec_ret" /\ Happened({"execute"}) /\ ~ Happened(FailureEvents)
            /\ get_query_type(exec_sql) \in WriteTypes) =>
          /\ Count({"commit"}) = 1
          /\ execution_result.success
          /\ execution_result.error = None
          /\ execution_result.rows_affected = Some(cursor.rowcount)
          /\ execution_result.query_type = Some(get_query_type(exec_sql))
          /\ execution_result.message =
                Some(get_query_type(exec_sql) \o " successful: "
                        \o ToString(cursor.rowcount) \o " row(s) affected")

C17_Witness ==
    /\ pc = "exec_ret"
    /\ exec_sql = "delete x"
    /\ Count({"commit"}) = 1
    /\ execution_result.rows_affected = Some(2)
    /\ execution_result.query_type = Some("DELETE")
    /\ execution_result.message = Some("DELETE successful: 2 row(s) affected")

\* C18: when execute_sql runs a statement classified SELECT it never commits;
\* it returns the engine's rows in the engine's order, each as a map from column
\* name to value (its keys are the engine's column names, and a name is mapped
\* to the row's value in a column of that name), the engine's column names in
\* the engine's order, and row_count equal to the number of rows.
C18_ReadResult ==
    /\ get_query_type(exec_sql) = "SELECT" => ~ Happened({"commit", "commit_failed"})
    /\ (pc = "exec_ret" /\ Happened({"fetch"})) =>
          /\ get_query_type(exec_sql) = "SELECT"
          /\ execution_result.success
          /\ execution_result.columns = Some(cursor.columns)
          /\ execution_result.row_count = Some(Len(cursor.rows))
          /\ Len(execution_result.data[1]) = Len(cursor.rows)
          /\ \A i \in DOMAIN cursor.rows :
                /\ DOMAIN execution_result.data[1][i] = Range(cursor.columns)
                /\ \A c \in Range(cursor.columns) :
                      LET at == {j \in DOMAIN cursor.columns : cursor.columns[j] = c}
                      IN  execution_result.data[1][i][c] \in
                              {cursor.rows[i][j] : j \in at}

C18_Witness ==
    /\ pc = "exec_ret"
    /\ Happened({"fetch"})
    /\ ~ Happened({"commit"})
    /\ execution_result.columns = Some(<<"id", "name">>)
    /\ execution_result.row_count = Some(2)
    /\ execution_result.data = Some(<<[id |-> "2", name |-> "b"], [id |-> "1", name |-> "a"]>>)

\* the five checks of the validator, each stated on the text alone
FailsCheck(n, t) ==
    CASE n = 1 -> \A i \in 1..Len(t) : CharAt(t, i) \in Whitespace
      [] n = 2 -> ~ \E op \in {"SELECT", "INSERT", "UPDATE", "DELETE"} :
                        startswith(upper(lstrip(t)), op)
      [] n = 3 -> \E k \in Blocklist : HasWholeWord(t, k)
      [] n = 4 -> \E p \in 1..NumPatterns : PatternMatches(p, upper(t))
      [] n = 5 -> \/ count(t, ";") > 1
                  \/ count(t, ";") = 1 /\ ~ endswith(rstrip(t), ";")

\* the reasons with which check n rejects the text
ReasonsOf(n, t) ==
    CASE n = 1 -> {"Empty query provided"}
      [] n = 2 -> {"Query must start with one of: SELECT, INSERT, UPDATE, DELETE"}
      [] n = 3 -> {"Query contains forbidden keyword: " \o k :
                      k \in {w \in Blocklist : HasWholeWord(t, w)}}
      [] n = 4 -> {"Query contains forbidden pattern or syntax"}
      [] n = 5 -> IF count(t, ";") > 1
                  THEN {"Multiple SQL statements are not allowed"}
                  ELSE {"Semicolon found in middle of query"}

FailedChecks(t) == {n \in 1..5 : FailsCheck(n, t)}

\* the lowest-numbered check the text fails, 0 if it passes all
FirstFailed(t) ==
    IF FailedChecks(t) = {} THEN 0
    ELSE CHOOSE n \in FailedChecks(t) : \A m \in FailedChecks(t) : n <= m

\* C19: the validator applies its checks in the order (1) empty or whitespace
\* only, (2) leading keyword, (3) blocklisted keyword, (4) dangerous pattern,
\* (5) semicolons, and stops at the first that fails: a text is rejected exactly
\* when it fails some check, and the reason is that of the lowest-numbered check
\* it fails, also when it fails several.
C19_FirstFailingCheck ==
    (unit.verdict # None /\ unit.reverdict = None /\ unit.type = None) =>
        /\ unit.verdict[1][1] <=> (FailedChecks(unit.text) = {})
        /\ ~ unit.verdict[1][1] =>
              unit.verdict[1][3] \in ReasonsOf(FirstFailed(unit.text), unit.text)

C19_Witness ==
    /\ unit.text = "DELETE FROM orders WHERE id=1; DROP TABLE orders"
    /\ FailedChecks(unit.text) = {3, 4, 5}
    /\ unit.verdict = Some(<<FALSE, "", "Query contains forbidden keyword: DROP">>)

\* the rule that rejects the text: the check, and within the keyword check the
\* keyword, within the pattern check the pattern, at which the validator returns
FailedRule(t) ==
    LET n == FirstFailed(t)
    IN  CASE n = 3 -> <<3, FirstKeyword(upper(t))>>
          [] n = 4 -> <<4, CHOOSE p \in 1..NumPatterns :
                              /\ PatternMatches(p, upper(t))
                              /\ \A q \in 1..(p - 1) : ~ PatternMatches(q, upper(t))>>
          [] OTHER -> <<n, 0>>

\* C20: a rejection reports the exact rule that failed: a rejection by the
\* blocklist names a keyword that occurs in the text as a whole word, and the
\* reason alone tells the rule (the check, and within checks 3 and 4 the
\* keyword or the pattern): two rejected texts with the same reason were
\* rejected by the same rule.
C20_ReasonTellsRule ==
    (unit.verdict # None /\ ~ unit.verdict[1][1]) =>
        /\ FirstFailed(unit.text) = 3 =>
              \E k \in Blocklist :
                  /\ unit.verdict[1][3] = "Query contains forbidden keyword: " \o k
                  /\ HasWholeWord(unit.text, k)
        /\ \A t \in ScenarioTexts :
              is_safe_query(t) = <<FALSE, unit.verdict[1][3]>>
                  => FailedRule(t) = FailedRule(unit.text)

\* the positions of the semicolons of the text
Semicolons(t) == {i \in 1..Len(t) : CharAt(t, i) = ";"}

\* the text passes the checks before the semicolon check
PassesBefore(n, t) == \A m \in 1..(n - 1) : ~ FailsCheck(m, t)

\* C21 (as claimed): a text with more than one semicolon is rejected, and a text
\* with exactly one semicolon is accepted only if the semicolon is the final
\* character of the text; followed by anything, even whitespace only, it is
\* rejected.
C21_SemicolonIsFinalCharacter ==
    (unit.verdict # None /\ Semicolons(unit.text) # {}) =>
        /\ Cardinality(Semicolons(unit.text)) > 1 => ~ unit.verdict[1][1]
        /\ unit.verdict[1][1] => CharAt(unit.text, Len(unit.text)) = ";"

\* C21 (amended): a text with more than one semicolon is rejected; a text with
\* exactly one semicolon is accepted only if nothing but whitespace follows the
\* semicolon, and is rejected when any other character follows it; trailing
\* whitespace after the final semicolon does not make the validator reject.
C21_SemicolonIsLast ==
    (unit.verdict # None /\ unit.reverdict = None /\ unit.type = None
        /\ Semicolons(unit.text) # {}) =>
        /\ Cardinality(Semicolons(unit.text)) > 1 => ~ unit.verdict[1][1]
        /\ \A i \in Semicolons(unit.text) :
              /\ (\E j \in (i + 1)..Len(unit.text) :
                      CharAt(unit.text, j) \notin Whitespace)
                    => ~ unit.verdict[1][1]
              /\ (Semicolons(unit.text) = {i} /\ PassesBefore(5, unit.text)
                    /\ \A j \in (i + 1)..Len(unit.text) :
                          CharAt(unit.text, j) \in Whitespace)
                    => unit.verdict[1][1]

C21_Witness ==
    /\ unit.text = "SELECT;\n"
    /\ unit.verdict = Some(<<TRUE, "SELECT", "">>)

\* the text without its semicolons, its whitespace runs turned into single
\* spaces and its edges trimmed, built character by character
RECURSIVE Squeeze(_, _, _)
Squeeze(t, i, out) ==
    IF i > Len(t) THEN out
    ELSE LET ch == CharAt(t, i)
         IN  IF ch = ";" THEN Squeeze(t, i + 1, out)
             ELSE IF ch \notin Whitespace THEN Squeeze(t, i + 1, out \o ch)
             ELSE IF out = "" \/ CharAt(out, Len(out)) = " "
                    \/ \A j \in (i + 1)..Len(t) : CharAt(t, j) \in Whitespace \cup {";"}
             THEN Squeeze(t, i + 1, out)
             ELSE Squeeze(t, i + 1, out \o " ")

\* the text without its semicolons
RECURSIVE WithoutSemicolons(_, _)
WithoutSemicolons(t, i) ==
    IF i > Len(t) THEN ""
    ELSE (IF CharAt(t, i) = ";" THEN "" ELSE CharAt(t, i)) \o WithoutSemicolons(t, i + 1)

\* C22: for every accepted text the sanitized text is the input with its single
\* trailing semicolon removed, every run of whitespace collapsed to one space
\* and both edges trimmed; it holds no semicolon, no whitespace at its edges, no
\* two consecutive whitespace characters, and the non-whitespace tokens of the
\* input in their order.
C22_SanitizedShape ==
    (unit.verdict # None /\ unit.reverdict = None /\ unit.type = None
        /\ unit.verdict[1][1]) =>
        LET t == unit.text
            z == unit.verdict[1][2]
        IN  /\ z = Squeeze(t, 1, "")
            /\ Semicolons(z) = {}
            /\ CharAt(z, 1) \notin Whitespace
            /\ CharAt(z, Len(z)) \notin Whitespace
            /\ \A i \in 1..Len(z) : CharAt(z, i) \in Whitespace =>
                  (CharAt(z, i) = " " /\ CharAt(z, i + 1) \notin Whitespace)
            /\ split(z) = split(WithoutSemicolons(t, 1))

C22_Witness ==
    /\ unit.text = " insert  into t\nvalues (1) ;\n"
    /\ unit.verdict # None
    /\ unit.verdict[1][2] = "insert into t values (1)"
    /\ unit.verdict[1][2] = Squeeze(unit.text, 1, "")

AllowedTypes == <<"SELECT", "INSERT", "UPDATE", "DELETE">>

\* the first of SELECT, INSERT, UPDATE, DELETE with which the text u begins,
\* UNKNOWN when it begins with none
LeadingType(u) ==
    LET at == {n \in DOMAIN AllowedTypes :
                  /\ Len(u) >= 6
                  /\ SubSeq(u, 1, 6) = AllowedTypes[n]}
    IN  IF at = {} THEN "UNKNOWN"
        ELSE AllowedTypes[CHOOSE n \in at : \A m \in at : n <= m]

\* the text from its first to its last character that is not whitespace
Trimmed(t) ==
    LET at == {i \in 1..Len(t) : CharAt(t, i) \notin Whitespace}
    IN  IF at = {} THEN ""
        ELSE SubSeq(t, CHOOSE i \in at : \A j \in at : i <= j,
                       CHOOSE i \in at : \A j \in at : j <= i)

\* C23 (as claimed): get_query_type uppercases the text and returns the first
\* of SELECT, INSERT, UPDATE, DELETE that is a literal prefix of it, UNKNOWN when
\* none is; is_write_operation is true exactly for INSERT, UPDATE and DELETE.
C23_ClassifyByLiteralPrefix ==
    unit.type # None =>
        /\ unit.type[1] = LeadingType(upper(unit.text))
        /\ unit.is_write[1] = (unit.type[1] \in WriteTypes)

\* the classification of the text is recorded and nothing else changes
ClassifyChangesNothingElse ==
    CallClassify =>
        /\ unit'.type = Some(LeadingType(upper(Trimmed(unit.text))))
        /\ unit' = [unit EXCEPT !.type = unit'.type, !.is_write = unit'.is_write]
        /\ UNCHANGED <<pc, request, sql_result, sql, is_write, query_type,
                       p_sql_result, exec_sql, sanitized_sql, connection, cursor,
                       execution_result, response, trace, preview, other>>

\* C23 (amended): get_query_type is a total function of the text alone: it
\* uppercases and trims the text and returns the first of SELECT, INSERT,
\* UPDATE, DELETE that is a literal prefix of the result, UNKNOWN when none is;
\* is_write_operation is true exactly for INSERT, UPDATE and DELETE; every call
\* on a text gives that value and changes no state.
C23_ClassifyByTrimmedPrefix ==
    /\ [] (unit.type # None =>
            /\ unit.type[1] = LeadingType(upper(Trimmed(unit.text)))
            /\ unit.is_write[1] = (unit.type[1] \in WriteTypes))
    /\ [][ClassifyChangesNothingElse]_vars

C23_Witness ==
    /\ unit.text = "\ndelete "
    /\ unit.type = Some("DELETE")
    /\ unit.is_write = Some(TRUE)
    /\ LeadingType(upper(unit.text)) = "UNKNOWN"

\* C24: there is no retry inside a request: once a generation (with its
\* validation) or an execution has failed, the request ends with that one
\* failure reported, the generator is not invoked again and nothing (more) is
\* executed; a statement is executed at most once per request.
C24_NoRetry ==
    request.active =>
        /\ Count({"llm"}) <= 2
        /\ Count({"validate"}) <= 1
        /\ Count({"connect", "connect_failed"}) <= 1
        /\ Count({"execute", "execute_failed"}) <= 1
        /\ Count({"commit", "commit_failed"}) <= 1
        /\ (Count({"llm"}) >= 1 /\ ~ sql_result.success) =>
              /\ pc = "responded"
              /\ Count({"llm"}) = 1
              /\ ~ Happened(DatastoreEvents \cup {"validate"})
              /\ response[1].success = FALSE
              /\ response[1].error = sql_result.error
        /\ (Count({"llm"}) = 2 /\ ~ p_sql_result.success) =>
              /\ pc = "responded"
              /\ ~ Happened(DatastoreEvents \cup {"validate"})
              /\ response[1].success = FALSE
              /\ response[1].error = p_sql_result.error
        /\ (Happened({"validate"}) /\ pc \in {"exec_ret", "responded"}
                /\ ~ execution_result.success) =>
              /\ Count({"llm"}) = 2
              /\ Count(FailureEvents) <= 1
              /\ pc = "responded" =>
                    /\ response[1].success = FALSE
                    /\ response[1].error = execution_result.error

C24_Witness ==
    /\ pc = "responded"
    /\ Count({"llm"}) = 2
    /\ Count({"execute_failed"}) = 1
    /\ Count({"execute"}) = 0
    /\ response[1].error = Some("Database error: connection refused")
    /\ get_query_type(exec_sql) = "SELECT"

CountIn(t, evs) == Cardinality({i \in DOMAIN t : t[i].ev \in evs})

\* the invocation with locals L is inside the with-block of execute_sql
InWithBlock(L) == L.pc \in {"exec_run", "exec_commit", "exec_fetch"}

\* the connection of one invocation: acquired at most once, held only inside
\* the with-block, released by the time execute_sql has returned
ConnectionReleased(L) ==
    /\ CountIn(L.trace, {"connect"}) <= 1
    /\ CountIn(L.trace, {"release"}) <= CountIn(L.trace, {"connect"})
    /\ (L.connection = "open") <=> InWithBlock(L)
    /\ (L.connection = "open") <=>
          (CountIn(L.trace, {"connect"}) = 1 /\ CountIn(L.trace, {"release"}) = 0)
    /\ (L.pc \in {"exec_ret", "responded"} /\ CountIn(L.trace, {"validate"}) = 1
            /\ is_safe_query(L.exec_sql)[1]) =>
          /\ CountIn(L.trace, {"connect", "connect_failed"}) = 1
          /\ CountIn(L.trace, {"release"}) = CountIn(L.trace, {"connect"})
          /\ L.connection = "closed"
          /\ CountIn(L.trace, {"connect"}) = 1 =>
                L.trace[Len(L.trace)].ev = "release"

\* C25: each call of execute_sql that passes its validation asks for one
\* datastore connection and releases the one it got before returning, on every
\* exit path (commit, normal return after a read, datastore error, other
\* exception); a call that has returned holds no connection, also when two
\* executions are in progress at once and their steps interleave.
C25_ConnectionReleased ==
    /\ ConnectionReleased(Locals)
    /\ ConnectionReleased(other)

C25_Witness ==
    /\ pc = "responded"
    /\ CountIn(trace, {"connect"}) = 1
    /\ CountIn(trace, {"execute_failed"}) = 1
    /\ trace[Len(trace)].ev = "release"
    /\ connection = "closed"
    /\ other.connection = "open"
    /\ other.pc = "exec_commit"

\* the gate of the invocation with locals L sees its own statement and flag
GateIsOwn(L) ==
    /\ (L.pc \notin {"idle", "nl_generate"} /\ L.sql_result.success) =>
          /\ L.sql = L.sql_result.sql[1]
          /\ L.query_type = LeadingType(upper(Trimmed(L.sql)))
          /\ L.is_write = (L.query_type \in WriteTypes)
          /\ \E i \in DOMAIN L.trace :
                /\ L.trace[i] = Event("gen_validate", L.sql)
                /\ is_safe_query(L.sql)[1]
    /\ (L.pc \notin {"idle", "nl_generate"} /\ ~ L.sql_result.success) =>
          /\ L.pc = "responded"
          /\ \A i \in DOMAIN L.trace :
                L.trace[i].ev = "gen_validate" => ~ is_safe_query(L.trace[i].arg)[1]
    /\ (L.sql_result.success /\ L.is_write /\ ~ L.request.confirm) =>
          /\ L.pc \in {"nl_gate", "responded"}
          /\ CountIn(L.trace, DatastoreEvents \cup {"validate"}) = 0
          /\ L.pc = "responded" =>
                L.response = Some(PreviewResponse(L.request.question, L.sql,
                                                  L.query_type))
    /\ L.pc \in {"pq_generate", "exec_entry", "exec_connect", "exec_run",
                 "exec_commit", "exec_fetch", "exec_ret"} =>
          (L.sql_result.success /\ (~ L.is_write \/ L.request.confirm))

\* C26: concurrent requests do not interfere through the gate: in every
\* interleaving of two requests, the validation verdict, the classification and
\* the gate decision of each depend only on its own statement text and confirm
\* flag; a request whose statement is a write and whose confirm flag is false
\* gets the preview and executes nothing, whatever the other request's flag is.
C26_GateIsOwn ==
    /\ GateIsOwn(Locals)
    /\ GateIsOwn(other)

C26_Witness ==
    /\ pc = "responded"
    /\ request = [question |-> "q2", confirm |-> FALSE, active |-> TRUE]
    /\ is_write
    /\ response = Some(PreviewResponse("q2", sql, "UPDATE"))
    /\ other.request = [question |-> "q1", confirm |-> TRUE, active |-> TRUE]
    /\ other.is_write
    /\ CountIn(other.trace, {"commit"}) = 1

\* C27: in every response that carries both a statement and the flag
\* is_write_operation, the flag is true exactly when that statement is
\* classified INSERT, UPDATE or DELETE.
C27_FlagAgreesWithSql ==
    (pc = "responded" /\ response[1].sql # None
        /\ response[1].is_write_operation # None) =>
        response[1].is_write_operation[1]
            = (LeadingType(upper(Trimmed(response[1].sql[1]))) \in WriteTypes)

\* the result of a generate_sql call of the request in progress
GeneratedOk(g) ==
    g.success =>
        /\ g.sql # None
        /\ is_safe_query(g.sql[1])[1]
        /\ LeadingType(upper(Trimmed(g.sql[1]))) \in Range(AllowedTypes)
        /\ sanitize_query(g.sql[1]) = g.sql[1]
        /\ validate_and_sanitize(g.sql[1]) = <<TRUE, g.sql[1], "">>

\* C28: whenever generate_sql returns success=true, its sql is a text the
\* validator accepts, of one of the four allowed types, that sanitizes to
\* itself; so the validation inside execute_sql, called with that text
\* unchanged, never fails.
C28_GeneratedRevalidates ==
    /\ GeneratedOk(sql_result)
    /\ GeneratedOk(p_sql_result)
    /\ (request.active /\ Happened({"validate"})) =>
          /\ p_sql_result.success
          /\ exec_sql = p_sql_result.sql[1]
          /\ pc # "exec_entry"
          /\ trace[Len(trace)].ev = "validate" =>
                (pc = "exec_connect" /\ sanitized_sql = exec_sql)
          /\ pc \in {"exec_ret", "responded"} =>
                /\ Happened({"connect", "connect_failed"})
                /\ execution_result.error \in {None} \cup DescriptiveErrors

C28_Witness ==
    /\ request.active
    /\ pc = "exec_connect"
    /\ p_sql_result = [success |-> TRUE, error |-> None, sql |-> Some("delete from orders")]
    /\ trace[Len(trace)] = Event("validate", "delete from orders")
    /\ sanitized_sql = "delete from orders"

\* C29: sanitization preserves classification, so the type decided at the gate
\* is the type by which execute_sql chooses between the commit path and the
\* fetch path.
C29_GateTypeIsExecutorType ==
    /\ (request.active /\ sql_result.success) =>
          get_query_type(sanitize_query(sql_result.sql[1]))
              = get_query_type(sql_result.sql[1])
    /\ (request.active /\ pc \in {"exec_commit", "exec_fetch"}) =>
          ((pc = "exec_commit") <=> (query_type \in WriteTypes))

\* the place of an event in a call of execute_sql
Rank(ev) ==
    CASE ev = "validate" -> 1
      [] ev \in {"connect", "connect_failed"} -> 2
      [] ev \in {"execute", "execute_failed"} -> 3
      [] ev \in {"commit", "commit_failed", "fetch", "fetch_failed"} -> 4
      [] ev = "release" -> 5

\* C30: within every call of execute_sql the events come in the order validate,
\* acquire connection, execute statement, commit (for writes only), release
\* connection: the statement sent to the datastore is the sanitized form of the
\* text whose validation has succeeded before, a commit follows only a
\* statement execution that succeeded, and there is at most one commit.
C30_EventOrder ==
    (~ request.active /\ trace # <<>>) =>
        /\ \A i, j \in DOMAIN trace : i < j => Rank(trace[i].ev) < Rank(trace[j].ev)
        /\ trace[1] = Event("validate", exec_sql)
        /\ \A i \in DOMAIN trace :
              /\ trace[i].ev \in {"connect", "connect_failed"} =>
                    (i = 2 /\ is_safe_query(exec_sql)[1])
              /\ trace[i].ev \in {"execute", "execute_failed"} =>
                    /\ i = 3
                    /\ trace[2].ev = "connect"
                    /\ trace[i].arg = Squeeze(exec_sql, 1, "")
              /\ trace[i].ev \in {"commit", "commit_failed"} =>
                    /\ i = 4
                    /\ trace[3] = Event("execute", trace[i].arg)
                    /\ LeadingType(upper(Trimmed(exec_sql))) \in WriteTypes
              /\ trace[i].ev \in {"fetch", "fetch_failed"} =>
                    /\ i = 4
                    /\ trace[3] = Event("execute", trace[i].arg)
                    /\ LeadingType(upper(Trimmed(exec_sql))) = "SELECT"
              /\ trace[i].ev = "release" => (i = Len(trace) /\ trace[2].ev = "connect")
        /\ Count({"commit"}) <= 1
        /\ pc = "exec_ret" => (Count({"connect"}) = Count({"release"}))

C30_Witness ==
    /\ pc = "exec_ret"
    /\ exec_sql = " insert  into t\nvalues (1) ;\n"
    /\ trace = <<Event("validate", exec_sql), Event("connect", ""),
                 Event("execute", "insert into t values (1)"),
                 Event("commit", "insert into t values (1)"),
                 Event("release", "")>>

=============================================================================
